---- MODULE Spec2Model ----
(***************************************************************************)
(* Model of pywrapper/setup.py of range_libc: the feature-flag resolver    *)
(* check_for_flag, the toolkit locator locate_cuda / find_in_path, the     *)
(* module-level construction of the flag lists and the source list, and    *)
(* the per-file compiler dispatcher _compile installed by                  *)
(* custom_build_ext._customize_compiler_for_nvcc.                          *)
(*                                                                         *)
(* Strings that the code inspects are sequences: an environment value is   *)
(* a sequence of one-character strings, a file name is a sequence of       *)
(* tokens ("/" and "." are tokens of their own), a filesystem path is a    *)
(* record [abs, parts] of its components.                                  *)
(*                                                                         *)
(* Lines 36-38 (on Darwin, MACOSX_DEPLOYMENT_TARGET and CC are set in      *)
(* os.environ) write variables that nothing modelled here reads and are    *)
(* left out.  The loop over the sources and the link step belong to the    *)
(* toolchain (setuptools build_ext); CompileNext and Link follow its       *)
(* documented contract.                                                    *)
(***************************************************************************)
EXTENDS Integers, Sequences, FiniteSets, TLC

VARIABLES
    environ,         \* os.environ: a function from variable names to values
    fs,              \* filesystem snapshot: [dirs, files], sets of absolute paths
    pc,              \* position of the run in setup.py
    use_cuda,        \* module global use_cuda (line 27)
    trace,           \* module global trace (line 30)
    compiler_flags,  \* module global compiler_flags (line 73)
    nvcc_flags,      \* module global nvcc_flags (line 74)
    include_dirs,    \* module global include_dirs (line 75)
    sources,         \* module global sources (line 77)
    CUDA,            \* module global CUDA (line 85), None until assigned
    stdout,          \* everything printed so far
    exc,             \* the exception that ended the run, None if none
    ext,             \* the Extension handed to setup(), None before
    compiler,        \* the CCompiler object: compiler_so, src_extensions, _compile
    closure,         \* what _compile closes over: default_compiler_so
    calls,           \* log of the invocations of the underlying super_compile
    dispatches,      \* log of the exits of the replaced _compile
    links,           \* number of link invocations
    idx,             \* number of sources the build loop has gone through
    ret              \* result of the last call of a function under test

vars == <<environ, fs, pc, use_cuda, trace, compiler_flags, nvcc_flags,
          include_dirs, sources, CUDA, stdout, exc, ext, compiler, closure,
          calls, dispatches, links, idx, ret>>

\* Python's None, for values that are otherwise strings
None == "None"

\* an optional structured value is a sequence of length 0 (None) or 1
Nothing == <<>>
Some(x) == <<x>>

(***************************************************************************)
(* Strings                                                                 *)
(***************************************************************************)

\* str.lower() on one character (the characters used in the modelled values)
LowerChar(c) ==
    CASE c = "O" -> "o"
      [] c = "N" -> "n"
      [] c = "F" -> "f"
      [] c = "T" -> "t"
      [] OTHER -> c

\* str.lower()
lower(s) == [i \in DOMAIN s |-> LowerChar(s[i])]

\* the literal "on" of line 15
StrOn == <<"o", "n">>

(***************************************************************************)
(* check_for_flag (lines 13-24)                                            *)
(***************************************************************************)

MsgHowToEnable(flag_str) == <<"   $ sudo ", flag_str, "=ON python setup.py install">>

\* mutant: the comparison without .lower()
check_for_flag_CaseSensitive(env, flag_str, truemsg, falsemsg) ==
    LET enabled == IF flag_str \in DOMAIN env
                   THEN env[flag_str] = StrOn
                   ELSE FALSE
    IN [enabled |-> enabled,
        out     |-> IF enabled THEN << <<truemsg>> >>
                    ELSE << <<falsemsg>>, MsgHowToEnable(flag_str) >>]

\* The value returned and the lines printed.  truemsg and falsemsg are
\* always strings here, so "not truemsg == False" is true.
check_for_flag(env, flag_str, truemsg, falsemsg) ==
    LET enabled == IF flag_str \in DOMAIN env
                   THEN lower(env[flag_str]) = StrOn
                   ELSE FALSE
    IN [enabled |-> enabled,
        out     |-> IF enabled THEN << <<truemsg>> >>
                    ELSE << <<falsemsg>>, MsgHowToEnable(flag_str) >>]

(***************************************************************************)
(* Paths (os.path)                                                         *)
(***************************************************************************)

Path(isabs, components) == [abs |-> isabs, parts |-> components]

\* the process's working directory, where relative paths are resolved
Cwd == <<"work", "pywrapper">>

\* the empty string as a path
EmptyPath == Path(FALSE, <<>>)

NotDot(c) == c # "."

\* os.path.join(a, *rest) for relative components rest
pjoin(a, rest) == Path(a.abs, a.parts \o rest)

\* os.path.abspath: anchored at the working directory, "." components dropped
abspath(p) ==
    Path(TRUE, SelectSeq(IF p.abs THEN p.parts ELSE Cwd \o p.parts, NotDot))

\* os.path.dirname of a path without a trailing separator
dirname(p) ==
    Path(p.abs, IF p.parts = <<>> THEN <<>> ELSE SubSeq(p.parts, 1, Len(p.parts) - 1))

\* os.path.exists: false for the empty string
exists(f, p) ==
    /\ p # EmptyPath
    /\ abspath(p).parts \in (f.dirs \cup f.files)

\* os.path.isdir
isdir(f, p) ==
    /\ p # EmptyPath
    /\ abspath(p).parts \in f.dirs

(***************************************************************************)
(* find_in_path (lines 41-46).  The value of PATH is held as the list of   *)
(* its os.pathsep-separated entries, which path.split never leaves empty.  *)
(***************************************************************************)

RECURSIVE find_in_path_from(_, _, _, _)
find_in_path_from(f, name, path, i) ==
    IF i > Len(path) THEN Nothing
    ELSE LET binpath == pjoin(path[i], <<name>>)
         IN IF exists(f, binpath) THEN Some(abspath(binpath))
            ELSE find_in_path_from(f, name, path, i + 1)

find_in_path(f, name, path) == find_in_path_from(f, name, path, 1)

(***************************************************************************)
(* locate_cuda (lines 49-70)                                               *)
(***************************************************************************)

PinnedDir  == Path(TRUE, <<"usr", "local", "cuda-10.2">>)
DefaultDir == Path(TRUE, <<"usr", "local", "cuda">>)

\* insertion order of the dict of line 65, which items() follows
CudaconfigKeys == <<"home", "nvcc", "include", "lib64">>

MsgNvccNotFound == <<"nvcc binary not found. Set $CUDAHOME or add nvcc to $PATH.">>

MsgNotLocated(k, v) == <<"The CUDA ", k, " path could not be located in ", v>>

Raise(kind, msg, probes) ==
    [raised |-> kind, msg |-> msg, value |-> Nothing, out |-> <<>>, probes |-> probes]

\* mutant: the loop of lines 66-68 misses the include entry
validate_SkipInclude(f, home, nvcc, probes) ==
    LET cudaconfig == [home    |-> home,
                       nvcc    |-> nvcc,
                       include |-> pjoin(home, <<"include">>),
                       lib64   |-> pjoin(home, <<"lib64">>)]
        missing == {i \in DOMAIN CudaconfigKeys :
                      /\ CudaconfigKeys[i] # "include"
                      /\ ~exists(f, cudaconfig[CudaconfigKeys[i]])}
    IN IF missing # {}
       THEN LET i == CHOOSE j \in missing : \A m \in missing : j <= m
                k == CudaconfigKeys[i]
            IN Raise("EnvironmentError", MsgNotLocated(k, cudaconfig[k]), probes)
       ELSE [raised |-> None, msg |-> <<>>, value |-> Some(cudaconfig),
             out |-> << <<"CUDA config: ", cudaconfig>> >>, probes |-> probes]

\* lines 65-70: build the config, check the four paths in order, print, return
validate(f, home, nvcc, probes) ==
    LET cudaconfig == [home    |-> home,
                       nvcc    |-> nvcc,
                       include |-> pjoin(home, <<"include">>),
                       lib64   |-> pjoin(home, <<"lib64">>)]
        missing == {i \in DOMAIN CudaconfigKeys : ~exists(f, cudaconfig[CudaconfigKeys[i]])}
    IN IF missing # {}
       THEN LET i == CHOOSE j \in missing : \A m \in missing : j <= m
                k == CudaconfigKeys[i]
            IN Raise("EnvironmentError", MsgNotLocated(k, cudaconfig[k]), probes)
       ELSE [raised |-> None, msg |-> <<>>, value |-> Some(cudaconfig),
             out |-> << <<"CUDA config: ", cudaconfig>> >>, probes |-> probes]

\* mutant: the CUDAHOME override is honoured before the default directories
locate_cuda_EnvFirst(env, f) ==
    IF "CUDAHOME" \in DOMAIN env
    THEN validate(f, env["CUDAHOME"], pjoin(env["CUDAHOME"], <<"bin", "nvcc">>),
                  <<"CUDAHOME">>)
    ELSE IF isdir(f, PinnedDir)
    THEN validate(f, PinnedDir, pjoin(PinnedDir, <<"bin", "nvcc">>),
                  <<"CUDAHOME", "pinned">>)
    ELSE IF isdir(f, DefaultDir)
    THEN validate(f, DefaultDir, pjoin(DefaultDir, <<"bin", "nvcc">>),
                  <<"CUDAHOME", "pinned", "default">>)
    ELSE IF "PATH" \notin DOMAIN env
    THEN Raise("KeyError", <<"PATH">>, <<"CUDAHOME", "pinned", "default", "PATH">>)
    ELSE LET nvcc == find_in_path(f, "nvcc", env["PATH"])
         IN IF nvcc = Nothing
            THEN Raise("EnvironmentError", MsgNvccNotFound,
                       <<"CUDAHOME", "pinned", "default", "PATH">>)
            ELSE validate(f, dirname(dirname(nvcc[1])), nvcc[1],
                          <<"CUDAHOME", "pinned", "default", "PATH">>)

\* lines 50-63: choose home and nvcc, then validate.  probes lists the
\* sources consulted, in order.
locate_cuda(env, f) ==
    IF isdir(f, PinnedDir)
    THEN validate(f, PinnedDir, pjoin(PinnedDir, <<"bin", "nvcc">>), <<"pinned">>)
    ELSE IF isdir(f, DefaultDir)
    THEN validate(f, DefaultDir, pjoin(DefaultDir, <<"bin", "nvcc">>),
                  <<"pinned", "default">>)
    ELSE IF "CUDAHOME" \in DOMAIN env
    THEN validate(f, env["CUDAHOME"], pjoin(env["CUDAHOME"], <<"bin", "nvcc">>),
                  <<"pinned", "default", "CUDAHOME">>)
    ELSE IF "PATH" \notin DOMAIN env
    THEN Raise("KeyError", <<"PATH">>, <<"pinned", "default", "CUDAHOME", "PATH">>)
    ELSE LET nvcc == find_in_path(f, "nvcc", env["PATH"])
         IN IF nvcc = Nothing
            THEN Raise("EnvironmentError", MsgNvccNotFound,
                       <<"pinned", "default", "CUDAHOME", "PATH">>)
            ELSE validate(f, dirname(dirname(nvcc[1])), nvcc[1],
                          <<"pinned", "default", "CUDAHOME", "PATH">>)

(***************************************************************************)
(* Module-level build plan (lines 73-90)                                   *)
(***************************************************************************)

\* line 73
BaseCompilerFlags == <<"-w", "-std=c++11", "-O3">>

\* line 74
BaseNvccFlags ==
    <<"-arch=sm_86", "--ptxas-options=-v", "-c", "--compiler-options", "'-fPIC'",
      "-w", "-std=c++11", "-O3">>

\* numpy.get_include() (lines 7-10), a directory of the installed numpy
numpy_include == Path(TRUE, <<"site-packages", "numpy", "core", "include">>)

\* line 75
BaseIncludeDirs == <<Path(FALSE, <<"..">>), numpy_include>>

\* line 77
BaseSources ==
    << <<"RangeLibc", ".", "pyx">>,
       <<"..", "/", "vendor", "/", "lodepng", "/", "lodepng", ".", "cpp">> >>

\* line 87
KernelSource == <<"..", "/", "includes", "/", "kernels", ".", "cu">>

\* lines 79-80
CHUNK_SIZE == "262144"
NUM_THREADS == "256"

\* the list appended by line 83 and by line 84
GpuDefines ==
    <<"-DUSE_CUDA=1", "-DCHUNK_SIZE=" \o CHUNK_SIZE, "-DNUM_THREADS=" \o NUM_THREADS>>

\* line 90
TraceDefine == "-D_MAKE_TRACE_MAP=1"

\* line 83
cuda_compiler_flags(cf) == cf \o GpuDefines

\* mutant: line 84 appends the two tuning defines in the other order
cuda_nvcc_flags_Drift(nf) ==
    nf \o <<"-DUSE_CUDA=1", "-DNUM_THREADS=" \o NUM_THREADS, "-DCHUNK_SIZE=" \o CHUNK_SIZE>>

\* line 84
cuda_nvcc_flags(nf) == nf \o GpuDefines

\* line 90
trace_compiler_flags(cf) == Append(cf, TraceDefine)

(***************************************************************************)
(* The compiler dispatcher (lines 98-114)                                  *)
(***************************************************************************)

\* positions of token t in the file name src
Positions(src, t) == {i \in DOMAIN src : src[i] = t}

Max(S) == CHOOSE m \in S : \A n \in S : n <= m

\* str.rfind, 0 when absent
rfind(src, t) == IF Positions(src, t) = {} THEN 0 ELSE Max(Positions(src, t))

\* os.path.splitext(src)[1]: from the last dot of the last component on,
\* unless that component has only dots before it
splitext_ext(src) ==
    LET sepIndex == rfind(src, "/")
        dotIndex == rfind(src, ".")
    IN IF /\ dotIndex > sepIndex
          /\ \E i \in (sepIndex + 1)..(dotIndex - 1) : src[i] # "."
       THEN SubSeq(src, dotIndex, Len(src))
       ELSE <<>>

CuExt == <<".", "cu">>

RECURSIVE PathStrFrom(_, _)
PathStrFrom(parts, i) ==
    IF i > Len(parts) THEN ""
    ELSE (IF i = 1 THEN "" ELSE "/") \o parts[i] \o PathStrFrom(parts, i + 1)

\* the string a path record stands for
PathStr(p) == (IF p.abs THEN "/" ELSE "") \o PathStrFrom(p.parts, 1)

\* CCompiler.set_executable: the value split into its words (a path without
\* blanks is one word)
set_executable(value) == <<PathStr(value)>>

\* mutant: line 109 left out, the host branch trusts the current executable
_compile_NoHostReset(c, default_compiler_so, cuda, nf, cf, src, extra_postargs, ok) ==
    LET isCu == splitext_ext(src) = CuExt
        so   == IF isCu THEN set_executable(cuda[1].nvcc) ELSE c.compiler_so
        post == IF isCu THEN nf ELSE cf
    IN [call |-> << [src |-> src, compiler_so |-> so, postargs |-> post, ok |-> ok] >>,
        compiler_so |-> IF ok THEN default_compiler_so ELSE so,
        raised |-> IF ok THEN None ELSE "CompileError"]

\* mutant: the failure of super_compile is swallowed
_compile_Swallow(c, default_compiler_so, cuda, nf, cf, src, extra_postargs, ok) ==
    LET isCu == splitext_ext(src) = CuExt
        so   == IF isCu THEN set_executable(cuda[1].nvcc) ELSE default_compiler_so
        post == IF isCu THEN nf ELSE cf
    IN [call |-> << [src |-> src, compiler_so |-> so, postargs |-> post, ok |-> ok] >>,
        compiler_so |-> default_compiler_so,
        raised |-> None]

\* _compile (lines 103-112) on compiler c: the invocations of super_compile it
\* makes (none or one), the compiler_so it leaves behind and the exception
\* that leaves it.  ok is the outcome of super_compile; when it raises, line
\* 112 is not reached.  Reading CUDA while it is unassigned is a NameError.
_compile(c, default_compiler_so, cuda, nf, cf, src, extra_postargs, ok) ==
    LET isCu == splitext_ext(src) = CuExt
    IN IF isCu /\ cuda = Nothing
       THEN [call |-> <<>>, compiler_so |-> c.compiler_so, raised |-> "NameError"]
       ELSE LET so   == IF isCu THEN set_executable(cuda[1].nvcc)
                        ELSE default_compiler_so
                post == IF isCu THEN nf ELSE cf
            IN [call |-> << [src |-> src, compiler_so |-> so,
                             postargs |-> post, ok |-> ok] >>,
                compiler_so |-> IF ok THEN default_compiler_so ELSE so,
                raised |-> IF ok THEN None ELSE "CompileError"]

(***************************************************************************)
(* Environments and filesystem snapshots the runs start from               *)
(***************************************************************************)

\* values of a feature-flag variable
FlagValues ==
    { <<"o", "n">>, <<"O", "N">>, <<"O", "n">>, <<"o", "N">>,
      <<>>, <<"1">>, <<"t", "r", "u", "e">>, <<"o", "n", " ">>,
      <<" ", "o", "n">>, <<"o", "f", "f">> }

\* all functions from a subset of the names in D to values in V
PartialFns(D, V) == UNION {[d -> V] : d \in SUBSET D}

\* f extended by g (g's domain is disjoint from f's)
Merge(f, g) ==
    [k \in DOMAIN f \cup DOMAIN g |-> IF k \in DOMAIN f THEN f[k] ELSE g[k]]

NoVars == [k \in {} |-> <<>>]

OptVar(name, values) == {NoVars} \cup {[k \in {name} |-> v] : v \in values}

OptCuda  == <<"opt", "cuda">>
OptNv    == <<"opt", "nv">>
WorkRoot == <<"work">>

CudaHomeValues ==
    { Path(TRUE, OptCuda), EmptyPath, Path(TRUE, <<"opt", "missing">>),
      Path(TRUE, <<"opt", "nv">>) }

PathValues ==
    { << Path(TRUE, <<"usr", "bin">>) >>,
      << Path(TRUE, <<"usr", "bin">>), Path(TRUE, OptNv \o <<"bin">>) >>,
      << Path(TRUE, OptNv \o <<"bin">>), Path(TRUE, OptCuda \o <<"bin">>) >>,
      << EmptyPath >>,
      << Path(FALSE, <<".">>), Path(TRUE, OptNv \o <<"bin">>) >> }

\* every path and all its ancestors
PrefixClose(S) == UNION {{SubSeq(q, 1, k) : k \in 1..Len(q)} : q \in S}

Tree(dirs, files) ==
    [dirs  |-> {q \in PrefixClose(dirs \cup files) : q # <<>> /\ q \notin files},
     files |-> files]

\* an installation under root, whole or with one piece missing
Install(root, variant) ==
    LET bin  == {root \o <<"bin">>}
        nvcc == {root \o <<"bin", "nvcc">>}
        inc  == {root \o <<"include">>}
        lib  == {root \o <<"lib64">>}
    IN CASE variant = "absent"    -> Tree({}, {})
         [] variant = "full"      -> Tree({root} \cup bin \cup inc \cup lib, nvcc)
         [] variant = "noinclude" -> Tree({root} \cup bin \cup lib, nvcc)
         [] variant = "nolib"     -> Tree({root} \cup bin \cup inc, nvcc)
         [] variant = "nonvcc"    -> Tree({root} \cup bin \cup inc \cup lib, {})
         [] variant = "bare"      -> Tree({root}, {})
         [] variant = "file"      -> Tree({}, {root})

\* the working directory, with nvcc lying in it and include and lib64 beside
\* it, or not
CwdInstall(variant) ==
    CASE variant = "absent" -> Tree({Cwd}, {})
      [] variant = "full"   -> Tree({WorkRoot \o <<"include">>, WorkRoot \o <<"lib64">>},
                                    {Cwd \o <<"nvcc">>})
      [] variant = "nolib"  -> Tree({WorkRoot \o <<"include">>}, {Cwd \o <<"nvcc">>})

Union2(a, b) == [dirs |-> a.dirs \cup b.dirs, files |-> a.files \cup b.files]

Snapshot(v1, v2, v3, v4, v5) ==
    Union2(Install(PinnedDir.parts, v1),
    Union2(Install(DefaultDir.parts, v2),
    Union2(Install(OptCuda, v3),
    Union2(Install(OptNv, v4), CwdInstall(v5)))))

Snapshots ==
    { Snapshot(v1, v2, v3, v4, v5) :
        v1 \in {"absent", "full", "noinclude", "file"},
        v2 \in {"absent", "full", "nonvcc"},
        v3 \in {"absent", "full", "nolib", "bare"},
        v4 \in {"absent", "full", "noinclude", "nonvcc"},
        v5 \in {"absent", "full", "nolib"} }

LocateEnvs ==
    { Merge(h, q) : h \in OptVar("CUDAHOME", CudaHomeValues),
                    q \in OptVar("PATH", PathValues) }

\* the smaller choice the whole run starts from
RunSnapshots ==
    { Snapshot(v1, "absent", v3, v4, "absent") :
        v1 \in {"absent", "full", "noinclude"},
        v3 \in {"absent", "full"},
        v4 \in {"absent", "full"} }

RunEnvs ==
    { Merge(Merge(w, t), Merge(h, q)) :
        w \in OptVar("WITH_CUDA", {<<"O", "N">>, <<"o", "n">>, <<"o", "f", "f">>, <<"1">>}),
        t \in OptVar("TRACE", {<<"O", "N">>, <<"O", "n">>, <<>>}),
        h \in OptVar("CUDAHOME", {Path(TRUE, OptCuda)}),
        q \in OptVar("PATH", {<< Path(TRUE, <<"usr", "bin">>),
                                 Path(TRUE, OptNv \o <<"bin">>) >>}) }

\* compiler.compiler_so as the toolchain configured it
HostCompilerSo == <<"x86_64-linux-gnu-g++", "-fPIC">>

\* CCompiler.src_extensions of the unix compiler
HostSrcExtensions == {<<".", "c">>, <<".", "cpp">>, <<".", "cc">>, <<".", "cxx">>}

NoRet == [fn |-> None]

\* the state before line 27 has run
Blank(env, f, at) ==
    /\ environ = env
    /\ fs = f
    /\ pc = at
    /\ use_cuda = FALSE
    /\ trace = FALSE
    /\ compiler_flags = <<>>
    /\ nvcc_flags = <<>>
    /\ include_dirs = <<>>
    /\ sources = <<>>
    /\ CUDA = Nothing
    /\ stdout = <<>>
    /\ exc = Nothing
    /\ ext = Nothing
    /\ compiler = [compiler_so |-> HostCompilerSo,
                   src_extensions |-> HostSrcExtensions,
                   compile |-> "super_compile"]
    /\ closure = Nothing
    /\ calls = <<>>
    /\ dispatches = <<>>
    /\ links = 0
    /\ idx = 0
    /\ ret = NoRet

(***************************************************************************)
(* check_for_flag and locate_cuda called on their own                      *)
(***************************************************************************)

InitFlag ==
    \E env \in PartialFns({"WITH_CUDA", "TRACE"}, FlagValues) : Blank(env, Tree({Cwd}, {}), "call")

CallCheckForFlag ==
    /\ pc = "call"
    /\ \E name \in {"WITH_CUDA", "TRACE"} :
          ret' = [fn |-> "check_for_flag", arg |-> name,
                  res |-> check_for_flag(environ, name, "enabled", "disabled")]
    /\ pc' = "returned"
    /\ UNCHANGED <<environ, fs, use_cuda, trace, compiler_flags, nvcc_flags,
                   include_dirs, sources, CUDA, stdout, exc, ext, compiler,
                   closure, calls, dispatches, links, idx>>

NextFlag == CallCheckForFlag

SpecFlag == InitFlag /\ [][NextFlag]_vars

InitLocate ==
    \E env \in LocateEnvs, f \in Snapshots : Blank(env, f, "call")

CallLocateCuda ==
    /\ pc = "call"
    /\ ret' = [fn |-> "locate_cuda", res |-> locate_cuda(environ, fs)]
    /\ pc' = "returned"
    /\ UNCHANGED <<environ, fs, use_cuda, trace, compiler_flags, nvcc_flags,
                   include_dirs, sources, CUDA, stdout, exc, ext, compiler,
                   closure, calls, dispatches, links, idx>>

NextLocate == CallLocateCuda

SpecLocate == InitLocate /\ [][NextLocate]_vars

(***************************************************************************)
(* The run of setup.py, statement by statement                             *)
(***************************************************************************)

Init == \E env \in RunEnvs, f \in RunSnapshots : Blank(env, f, "L27")

\* lines 27-29
ResolveUseCuda ==
    /\ pc = "L27"
    /\ LET r == check_for_flag(environ, "WITH_CUDA", "Compiling with CUDA support",
                               "Compiling without CUDA support. To enable CUDA use:")
       IN /\ use_cuda' = r.enabled
          /\ stdout' = stdout \o r.out
    /\ pc' = "L30"
    /\ UNCHANGED <<environ, fs, trace, compiler_flags, nvcc_flags, include_dirs,
                   sources, CUDA, exc, ext, compiler, closure, calls, dispatches,
                   links, idx, ret>>

\* lines 30-34
ResolveTrace ==
    /\ pc = "L30"
    /\ LET r == check_for_flag(environ, "TRACE",
                               "Compiling with trace enabled for Bresenham's Line",
                               "Compiling without trace enabled for Bresenham's Line")
       IN /\ trace' = r.enabled
          /\ stdout' = stdout \o r.out \o << <<"--------------">> >>
    /\ pc' = "L73"
    /\ UNCHANGED <<environ, fs, use_cuda, compiler_flags, nvcc_flags, include_dirs,
                   sources, CUDA, exc, ext, compiler, closure, calls, dispatches,
                   links, idx, ret>>

\* lines 73-80
AssignLists ==
    /\ pc = "L73"
    /\ compiler_flags' = BaseCompilerFlags
    /\ nvcc_flags' = BaseNvccFlags
    /\ include_dirs' = BaseIncludeDirs
    /\ sources' = BaseSources
    /\ pc' = "L82"
    /\ UNCHANGED <<environ, fs, use_cuda, trace, CUDA, stdout, exc, ext, compiler,
                   closure, calls, dispatches, links, idx, ret>>

\* lines 82-87; an exception of locate_cuda ends the run at line 85
UseCudaBranch ==
    /\ pc = "L82"
    /\ IF use_cuda
       THEN LET r == locate_cuda(environ, fs)
            IN /\ compiler_flags' = cuda_compiler_flags(compiler_flags)
               /\ nvcc_flags' = cuda_nvcc_flags(nvcc_flags)
               /\ stdout' = stdout \o r.out
               /\ IF r.raised = None
                  THEN /\ CUDA' = r.value
                       /\ include_dirs' = Append(include_dirs, r.value[1].include)
                       /\ sources' = Append(sources, KernelSource)
                       /\ pc' = "L89"
                       /\ exc' = exc
                  ELSE /\ exc' = Some([type |-> r.raised, msg |-> r.msg])
                       /\ pc' = "raised"
                       /\ UNCHANGED <<CUDA, include_dirs, sources>>
       ELSE /\ pc' = "L89"
            /\ UNCHANGED <<compiler_flags, nvcc_flags, stdout, CUDA, include_dirs,
                           sources, exc>>
    /\ UNCHANGED <<environ, fs, use_cuda, trace, ext, compiler, closure, calls,
                   dispatches, links, idx, ret>>

\* lines 89-90
TraceBranch ==
    /\ pc = "L89"
    /\ compiler_flags' = IF trace THEN trace_compiler_flags(compiler_flags)
                         ELSE compiler_flags
    /\ pc' = "L117"
    /\ UNCHANGED <<environ, fs, use_cuda, trace, nvcc_flags, include_dirs, sources,
                   CUDA, stdout, exc, ext, compiler, closure, calls, dispatches,
                   links, idx, ret>>

\* setuptools turns a .pyx source into the C++ file generated from it
convert_pyx(src) ==
    IF splitext_ext(src) = <<".", "pyx">>
    THEN SubSeq(src, 1, Len(src) - 1) \o <<"cpp">>
    ELSE src

\* mutant: one setup() call, with the custom command, for both kinds of build
MakeExtension_AlwaysCustom(uc, srcs, cf, incs, cuda) ==
    [sources |-> [i \in DOMAIN srcs |-> convert_pyx(srcs[i])],
     extra_compile_args |-> cf,
     extra_link_args |-> <<"-std=c++11">>,
     include_dirs |-> incs,
     library_dirs |-> IF uc
                      THEN <<cuda[1].lib64, Path(TRUE, <<"usr", "lib", "x86_64-linux-gnu">>)>>
                      ELSE <<>>,
     libraries |-> IF uc THEN <<"cudart">> ELSE <<>>,
     runtime_library_dirs |-> IF uc THEN <<cuda[1].lib64>> ELSE <<>>,
     cmdclass |-> "custom_build_ext"]

\* the Extension and the command class of lines 118-136 (use_cuda) or 138-154
MakeExtension(uc, srcs, cf, incs, cuda) ==
    [sources |-> [i \in DOMAIN srcs |-> convert_pyx(srcs[i])],
     extra_compile_args |-> cf,
     extra_link_args |-> <<"-std=c++11">>,
     include_dirs |-> incs,
     library_dirs |-> IF uc
                      THEN <<cuda[1].lib64, Path(TRUE, <<"usr", "lib", "x86_64-linux-gnu">>)>>
                      ELSE <<>>,
     libraries |-> IF uc THEN <<"cudart">> ELSE <<>>,
     runtime_library_dirs |-> IF uc THEN <<cuda[1].lib64>> ELSE <<>>,
     cmdclass |-> IF uc THEN "custom_build_ext" ELSE "build_ext"]

\* _customize_compiler_for_nvcc (lines 98-101, 114) on compiler c
customize_compiler_for_nvcc(c) ==
    [compiler_so |-> c.compiler_so,
     src_extensions |-> c.src_extensions \cup {CuExt},
     compile |-> "_compile"]

\* lines 117-154 up to the first compile: the Extension is made, setup() runs
\* the chosen build_ext command, custom_build_ext.build_extensions (lines
\* 94-96) customizes the compiler, and the toolchain refuses a source whose
\* extension the compiler does not list
Setup ==
    /\ pc = "L117"
    /\ LET e == MakeExtension(use_cuda, sources, compiler_flags, include_dirs, CUDA)
           c == IF e.cmdclass = "custom_build_ext"
                THEN customize_compiler_for_nvcc(compiler)
                ELSE compiler
       IN /\ ext' = Some(e)
          /\ compiler' = c
          /\ closure' = IF e.cmdclass = "custom_build_ext"
                        THEN Some([default_compiler_so |-> compiler.compiler_so])
                        ELSE closure
          /\ IF \A i \in DOMAIN e.sources : splitext_ext(e.sources[i]) \in c.src_extensions
             THEN pc' = "compile" /\ exc' = exc
             ELSE pc' = "raised" /\ exc' = Some([type |-> "UnknownFileError", msg |-> <<>>])
    /\ UNCHANGED <<environ, fs, use_cuda, trace, compiler_flags, nvcc_flags,
                   include_dirs, sources, CUDA, stdout, calls, dispatches, links,
                   idx, ret>>

\* one call of compiler._compile: the replaced _compile when installed, the
\* toolchain's own compile, which runs compiler_so with the flags it is given,
\* otherwise
compile_method(src, extra_postargs, ok) ==
    IF compiler.compile = "_compile"
    THEN _compile(compiler, closure[1].default_compiler_so, CUDA, nvcc_flags,
                  compiler_flags, src, extra_postargs, ok)
    ELSE [call |-> << [src |-> src, compiler_so |-> compiler.compiler_so,
                       postargs |-> extra_postargs, ok |-> ok] >>,
          compiler_so |-> compiler.compiler_so,
          raised |-> IF ok THEN None ELSE "CompileError"]

\* what the call leaves in the state and in the logs
Dispatched(src, extra_postargs, ok, r) ==
    /\ calls' = calls \o r.call
    /\ compiler' = [compiler EXCEPT !.compiler_so = r.compiler_so]
    /\ dispatches' = IF compiler.compile = "_compile"
                     THEN Append(dispatches,
                                 [src |-> src, extra_postargs |-> extra_postargs,
                                  ok |-> ok, raised |-> r.raised,
                                  compiler_so |-> r.compiler_so])
                     ELSE dispatches

\* the toolchain compiles the next source of the extension through
\* compiler._compile; an exception ends the build
CompileNext ==
    /\ pc = "compile"
    /\ idx < Len(ext[1].sources)
    /\ \E ok \in BOOLEAN :
          LET src == ext[1].sources[idx + 1]
              r == compile_method(src, ext[1].extra_compile_args, ok)
          IN /\ Dispatched(src, ext[1].extra_compile_args, ok, r)
             /\ idx' = idx + 1
             /\ IF r.raised = None
                THEN pc' = "compile" /\ exc' = exc
                ELSE /\ pc' = "raised"
                     /\ exc' = Some([type |-> r.raised, msg |-> <<src>>])
    /\ UNCHANGED <<environ, fs, use_cuda, trace, compiler_flags, nvcc_flags,
                   include_dirs, sources, CUDA, stdout, ext, closure, links, ret>>

\* the toolchain links the objects once every source is compiled
Link ==
    /\ pc = "compile"
    /\ idx = Len(ext[1].sources)
    /\ links' = links + 1
    /\ \E ok \in BOOLEAN :
          IF ok THEN pc' = "done" /\ exc' = exc
          ELSE pc' = "raised" /\ exc' = Some([type |-> "LinkError", msg |-> <<>>])
    /\ UNCHANGED <<environ, fs, use_cuda, trace, compiler_flags, nvcc_flags,
                   include_dirs, sources, CUDA, stdout, ext, compiler, closure,
                   calls, dispatches, idx, ret>>

Next ==
    \/ ResolveUseCuda
    \/ ResolveTrace
    \/ AssignLists
    \/ UseCudaBranch
    \/ TraceBranch
    \/ Setup
    \/ CompileNext
    \/ Link

Spec == Init /\ [][Next]_vars

(***************************************************************************)
(* The dispatcher called on arbitrary sequences of files                   *)
(***************************************************************************)

\* the most dispatches of one sequence
MaxDispatch == 3

DispatchSources ==
    { <<"host", ".", "cpp">>,
      <<"kernel", ".", "cu">>,
      <<"host2", ".", "cpp">>,
      <<"gen", ".", "cu", "/", "wrap", ".", "cpp">>,
      <<"kernel", ".", "CU">>,
      <<".", "cu">> }

\* a located toolkit and the lists of a GPU-enabled build, with the dispatcher
\* installed: the state in which Setup leaves a run
InitDispatch ==
    \E tr \in BOOLEAN :
        LET f == Snapshot("full", "absent", "absent", "absent", "absent")
            env == [k \in {"WITH_CUDA"} |-> <<"O", "N">>]
            r == locate_cuda(env, f)
            cf == IF tr THEN trace_compiler_flags(cuda_compiler_flags(BaseCompilerFlags))
                  ELSE cuda_compiler_flags(BaseCompilerFlags)
            incs == Append(BaseIncludeDirs, r.value[1].include)
            srcs == Append(BaseSources, KernelSource)
        IN /\ environ = env
           /\ fs = f
           /\ pc = "dispatch"
           /\ use_cuda = TRUE
           /\ trace = tr
           /\ compiler_flags = cf
           /\ nvcc_flags = cuda_nvcc_flags(BaseNvccFlags)
           /\ include_dirs = incs
           /\ sources = srcs
           /\ CUDA = r.value
           /\ stdout = <<>>
           /\ exc = Nothing
           /\ ext = Some(MakeExtension(TRUE, srcs, cf, incs, r.value))
           /\ compiler = customize_compiler_for_nvcc(
                            [compiler_so |-> HostCompilerSo,
                             src_extensions |-> HostSrcExtensions,
                             compile |-> "super_compile"])
           /\ closure = Some([default_compiler_so |-> HostCompilerSo])
           /\ calls = <<>>
           /\ dispatches = <<>>
           /\ links = 0
           /\ idx = 0
           /\ ret = NoRet

\* one call of the replaced _compile, by any caller, with any flags
Dispatch ==
    /\ pc = "dispatch"
    /\ Len(dispatches) < MaxDispatch
    /\ \E src \in DispatchSources, ok \in BOOLEAN,
          extra_postargs \in {compiler_flags, <<"-O0", "-DUSE_CUDA=0">>} :
          Dispatched(src, extra_postargs, ok, compile_method(src, extra_postargs, ok))
    /\ UNCHANGED <<environ, fs, pc, use_cuda, trace, compiler_flags, nvcc_flags,
                   include_dirs, sources, CUDA, stdout, exc, ext, closure, links,
                   idx, ret>>

NextDispatch == Dispatch

SpecDispatch == InitDispatch /\ [][NextDispatch]_vars

(***************************************************************************)
(* Properties of check_for_flag and locate_cuda                            *)
(***************************************************************************)

Returned(fn) == pc = "returned" /\ ret.fn = fn

EnablingSpellings == { <<"o", "n">>, <<"O", "N">>, <<"O", "n">>, <<"o", "N">> }

\* C3: check_for_flag(name) returns enabled exactly when the variable name is
\* present with one of the values "on", "ON", "On", "oN"; an absent variable
\* and every other value give disabled.
C3_EnabledIffOn ==
    Returned("check_for_flag") =>
        (ret.res.enabled <=>
            /\ ret.arg \in DOMAIN environ
            /\ environ[ret.arg] \in EnablingSpellings)

C3_Witness ==
    /\ Returned("check_for_flag")
    /\ ret.arg \in DOMAIN environ
    /\ environ[ret.arg] = <<"O", "n">>
    /\ ret.res.enabled

\* the source the discovery order of the claim selects
AvailablePinned  == isdir(fs, PinnedDir)
AvailableDefault == isdir(fs, DefaultDir)
AvailableEnv     == "CUDAHOME" \in DOMAIN environ

NvccIn(d) == exists(fs, pjoin(d, <<"nvcc">>))

\* the indexes of the entries of PATH that hold nvcc
NvccEntries ==
    IF "PATH" \in DOMAIN environ
    THEN {i \in DOMAIN environ["PATH"] : NvccIn(environ["PATH"][i])}
    ELSE {}

FirstNvccEntry == CHOOSE i \in NvccEntries : \A j \in NvccEntries : i <= j

HighestPriority ==
    IF AvailablePinned THEN "pinned"
    ELSE IF AvailableDefault THEN "default"
    ELSE IF AvailableEnv THEN "CUDAHOME"
    ELSE "PATH"

\* C4: locate_cuda takes the root from the highest-priority available source
\* among the pinned directory, the unversioned directory, CUDAHOME and the
\* first nvcc on PATH, and consults no source after the one it takes.
C4_PriorityOrder ==
    Returned("locate_cuda") =>
        LET r == ret.res
        IN /\ r.probes[Len(r.probes)] = HighestPriority
           /\ \A i \in DOMAIN r.probes : \A j \in DOMAIN r.probes :
                 (i # j) => (r.probes[i] # r.probes[j])
           /\ ("CUDAHOME" \in {r.probes[i] : i \in DOMAIN r.probes})
                 => (~AvailablePinned /\ ~AvailableDefault)
           /\ ("PATH" \in {r.probes[i] : i \in DOMAIN r.probes})
                 => (~AvailablePinned /\ ~AvailableDefault /\ ~AvailableEnv)
           /\ (r.raised = None) =>
                 LET home == r.value[1].home
                 IN CASE HighestPriority = "pinned"   -> home = PinnedDir
                      [] HighestPriority = "default"  -> home = DefaultDir
                      [] HighestPriority = "CUDAHOME" -> home = environ["CUDAHOME"]
                      [] HighestPriority = "PATH"     ->
                            /\ NvccEntries # {}
                            /\ LET bin == abspath(pjoin(environ["PATH"][FirstNvccEntry],
                                                        <<"nvcc">>))
                               IN /\ r.value[1].nvcc = bin
                                  /\ home = dirname(dirname(bin))

\* CUDAHOME is set and nvcc is on PATH, yet the unversioned default directory wins
C4_Witness ==
    /\ Returned("locate_cuda")
    /\ ~AvailablePinned /\ AvailableDefault /\ AvailableEnv /\ NvccEntries # {}
    /\ ret.res.raised = None
    /\ ret.res.value[1].home = DefaultDir
    /\ environ["CUDAHOME"] # DefaultDir

NoStrategyYields ==
    /\ ~exists(fs, PinnedDir)
    /\ ~exists(fs, DefaultDir)
    /\ AvailableEnv => ~exists(fs, environ["CUDAHOME"])
    /\ NvccEntries = {}

\* C5: when no discovery strategy yields an existing path (CUDAHOME unset or
\* naming a path that does not exist, PATH unset or without nvcc), locate_cuda
\* fails with the error that tells the operator to set $CUDAHOME.
C5_NothingFoundRaisesNotFound ==
    (Returned("locate_cuda") /\ NoStrategyYields) =>
        /\ ret.res.raised = "EnvironmentError"
        /\ ret.res.msg = MsgNvccNotFound

RoleSuffix(k) ==
    CASE k = "home"    -> <<>>
      [] k = "nvcc"    -> <<"nvcc">>
      [] k = "include" -> <<"include">>
      [] k = "lib64"   -> <<"lib64">>

IsNotLocated(r) ==
    r.raised = "EnvironmentError" /\ Len(r.msg) = 4 /\ r.msg[1] = "The CUDA "

\* the root the discovery order selects, when a strategy selects one
CandidateChosen == HighestPriority # "PATH" \/ NvccEntries # {}

CandidateHome ==
    CASE HighestPriority = "pinned"   -> PinnedDir
      [] HighestPriority = "default"  -> DefaultDir
      [] HighestPriority = "CUDAHOME" -> environ["CUDAHOME"]
      [] HighestPriority = "PATH"     ->
            dirname(dirname(abspath(pjoin(environ["PATH"][FirstNvccEntry], <<"nvcc">>))))

CandidateNvcc ==
    IF HighestPriority = "PATH"
    THEN abspath(pjoin(environ["PATH"][FirstNvccEntry], <<"nvcc">>))
    ELSE pjoin(CandidateHome, <<"bin", "nvcc">>)

\* C6: with a candidate root chosen, locate_cuda returns a configuration only
\* if home, nvcc, include and lib64 all exist; otherwise it raises the error
\* naming the role and the path of a path that is missing (exactly include
\* missing: it names include); the configuration is printed only on success.
C6_ValidatedOrNamed ==
    (Returned("locate_cuda") /\ CandidateChosen) =>
        LET r == ret.res
            allExist == /\ exists(fs, CandidateHome)
                        /\ exists(fs, CandidateNvcc)
                        /\ exists(fs, pjoin(CandidateHome, <<"include">>))
                        /\ exists(fs, pjoin(CandidateHome, <<"lib64">>))
        IN /\ (r.raised = None) <=> allExist
           /\ (r.raised = None) =>
                 /\ \A i \in DOMAIN CudaconfigKeys : exists(fs, r.value[1][CudaconfigKeys[i]])
                 /\ Len(r.out) = 1
                 /\ r.out[1][1] = "CUDA config: "
                 /\ r.out[1][2] = r.value[1]
           /\ (r.raised # None) =>
                 /\ IsNotLocated(r)
                 /\ r.out = <<>>
                 /\ r.value = Nothing
                 /\ r.msg[2] \in {CudaconfigKeys[i] : i \in DOMAIN CudaconfigKeys}
                 /\ ~exists(fs, r.msg[4])
                 /\ r.msg[4] = (IF r.msg[2] = "home" THEN CandidateHome
                                ELSE IF r.msg[2] = "nvcc" THEN CandidateNvcc
                                ELSE pjoin(CandidateHome, RoleSuffix(r.msg[2])))
           /\ ( /\ exists(fs, CandidateHome)
                /\ exists(fs, CandidateNvcc)
                /\ ~exists(fs, pjoin(CandidateHome, <<"include">>))
                /\ exists(fs, pjoin(CandidateHome, <<"lib64">>)) )
                 => (IsNotLocated(r) /\ r.msg[2] = "include")

\* a root that lacks exactly its include directory
C6_Witness ==
    /\ Returned("locate_cuda")
    /\ CandidateChosen
    /\ exists(fs, CandidateHome)
    /\ exists(fs, CandidateNvcc)
    /\ ~exists(fs, pjoin(CandidateHome, <<"include">>))
    /\ exists(fs, pjoin(CandidateHome, <<"lib64">>))
    /\ IsNotLocated(ret.res)
    /\ ret.res.msg[2] = "include"

(***************************************************************************)
(* Properties of the dispatcher                                            *)
(***************************************************************************)

\* C1: at the exit of every dispatch, normal or by a compile error, host file
\* or .cu file, compiler.compiler_so is the captured default.
C1_RestoredOnEveryExit ==
    \A i \in DOMAIN dispatches :
        dispatches[i].compiler_so = closure[1].default_compiler_so

\* the file name ends in ".cu" and has a stem
HasCuExtension(src) ==
    /\ Len(src) >= 3
    /\ src[Len(src)] = "cu"
    /\ src[Len(src) - 1] = "."
    /\ src[Len(src) - 2] \notin {".", "/"}

\* C2: every call of the underlying compile is made with the toolkit's nvcc
\* and exactly nvcc_flags for a .cu file, with the default host compiler and
\* exactly compiler_flags for any other file, whatever flags the caller
\* passed and whatever happened in earlier dispatches.
C2_CompilerAndFlagsByExtension ==
    (pc = "dispatch") =>
        /\ Len(calls) = Len(dispatches)
        /\ \A i \in DOMAIN calls :
              /\ calls[i].src = dispatches[i].src
              /\ IF HasCuExtension(calls[i].src)
                 THEN /\ calls[i].compiler_so = <<"/usr/local/cuda-10.2/bin/nvcc">>
                      /\ calls[i].postargs = nvcc_flags
                 ELSE /\ calls[i].compiler_so = HostCompilerSo
                      /\ calls[i].postargs = compiler_flags

\* host.cpp, then kernel.cu failing, then host2.cpp with flags of the caller's own
C2_Witness ==
    /\ pc = "dispatch"
    /\ Len(calls) = 3
    /\ calls[1].src = <<"host", ".", "cpp">>
    /\ calls[2].src = <<"kernel", ".", "cu">>
    /\ ~calls[2].ok
    /\ calls[3].src = <<"host2", ".", "cpp">>
    /\ dispatches[3].extra_postargs = <<"-O0", "-DUSE_CUDA=0">>
    /\ calls[3].compiler_so = HostCompilerSo
    /\ calls[3].postargs = compiler_flags

(***************************************************************************)
(* Properties of the run                                                   *)
(***************************************************************************)

\* lines 73-90 have run
PlanBuilt == pc \in {"L117", "compile", "done"} \/ (pc = "raised" /\ ext # Nothing)

NoDuplicates(q) == \A i \in DOMAIN q : \A j \in DOMAIN q : (i # j) => (q[i] # q[j])

ThreeGpuDefines == <<"-DUSE_CUDA=1", "-DCHUNK_SIZE=262144", "-DNUM_THREADS=256">>

\* C7: host flags are the base host flags, then the three GPU defines iff GPU
\* support is enabled, then the trace define iff trace is enabled; GPU flags
\* are the base GPU flags, then the same three defines iff GPU support is
\* enabled, never the trace define; the kernel source is last in the source
\* list iff GPU support is enabled; no flag occurs twice in either list.
C7_PlanByFlags ==
    PlanBuilt =>
        /\ compiler_flags =
              <<"-w", "-std=c++11", "-O3">>
              \o (IF use_cuda THEN ThreeGpuDefines ELSE <<>>)
              \o (IF trace THEN <<"-D_MAKE_TRACE_MAP=1">> ELSE <<>>)
        /\ nvcc_flags =
              <<"-arch=sm_86", "--ptxas-options=-v", "-c", "--compiler-options",
                "'-fPIC'", "-w", "-std=c++11", "-O3">>
              \o (IF use_cuda THEN ThreeGpuDefines ELSE <<>>)
        /\ sources = BaseSources \o (IF use_cuda THEN <<KernelSource>> ELSE <<>>)
        /\ NoDuplicates(compiler_flags)
        /\ NoDuplicates(nvcc_flags)
        /\ (ext # Nothing) => (ext[1].extra_compile_args = compiler_flags)

C7_Witness ==
    /\ pc = "L117"
    /\ use_cuda
    /\ trace
    /\ Len(sources) = 3
    /\ Len(compiler_flags) = 7
    /\ Len(nvcc_flags) = 11

\* C8: the sources are compiled one at a time in list order; a failing
\* compile leaves the dispatcher as a compile error, no later source is
\* compiled and nothing is linked; the link runs at most once, after every
\* source compiled.
C8_FailFastInOrder ==
    (ext # Nothing) =>
        /\ Len(calls) = idx
        /\ idx <= Len(ext[1].sources)
        /\ \A i \in DOMAIN calls : calls[i].src = ext[1].sources[i]
        /\ \A i \in DOMAIN calls :
              ~calls[i].ok =>
                 /\ i = Len(calls)
                 /\ pc = "raised"
                 /\ exc = Some([type |-> "CompileError", msg |-> <<calls[i].src>>])
                 /\ links = 0
        /\ \A i \in DOMAIN dispatches :
              dispatches[i].raised = (IF dispatches[i].ok THEN None ELSE "CompileError")
        /\ links <= 1
        /\ (links = 1) =>
              /\ Len(calls) = Len(ext[1].sources)
              /\ \A i \in DOMAIN calls : calls[i].ok

\* three sources, the second fails: the third is never compiled
C8_Witness ==
    /\ ext # Nothing
    /\ Len(ext[1].sources) = 3
    /\ compiler.compile = "_compile"
    /\ Len(calls) = 2
    /\ ~calls[2].ok
    /\ pc = "raised"
    /\ links = 0

AllExist(cfg) == \A i \in DOMAIN CudaconfigKeys : exists(fs, cfg[CudaconfigKeys[i]])

PastLocate == pc \in {"L89", "L117", "compile", "done", "raised"}

InRange(q) == {q[i] : i \in DOMAIN q}

\* C10: the toolkit is located iff the GPU flag is enabled and before any
\* compile; a file goes to the GPU compiler only with a validated toolkit
\* configuration; the dispatcher and the kernel source exist only in GPU
\* builds whose locate_cuda succeeded; a failed locate_cuda ends the run with
\* no compile and no link; without the GPU flag no compile runs the toolkit
\* compiler and nothing of the toolkit enters the plan.
C10_ToolkitOnlyWhenEnabled ==
    /\ (CUDA # Nothing) => (use_cuda /\ AllExist(CUDA[1]))
    /\ (PastLocate /\ use_cuda /\ CUDA = Nothing) =>
          /\ pc = "raised"
          /\ exc # Nothing
          /\ exc[1].type \in {"EnvironmentError", "KeyError"}
          /\ ext = Nothing
          /\ calls = <<>>
          /\ links = 0
    /\ (calls # <<>> \/ links > 0) => (use_cuda <=> CUDA # Nothing)
    /\ \A i \in DOMAIN calls :
          (calls[i].compiler_so # HostCompilerSo) =>
             /\ use_cuda
             /\ CUDA # Nothing
             /\ AllExist(CUDA[1])
             /\ calls[i].compiler_so = <<PathStr(CUDA[1].nvcc)>>
    /\ (compiler.compile = "_compile" \/ KernelSource \in InRange(sources)) =>
          (use_cuda /\ CUDA # Nothing)
    /\ (exc # Nothing) => (exc[1].type # "NameError")
    /\ (~use_cuda /\ ext # Nothing) =>
          /\ ext[1].include_dirs = BaseIncludeDirs
          /\ ext[1].library_dirs = <<>>
          /\ ext[1].libraries = <<>>
          /\ ext[1].runtime_library_dirs = <<>>
          /\ \A i \in DOMAIN ext[1].sources : ~HasCuExtension(ext[1].sources[i])
          /\ dispatches = <<>>

\* the kernel of a GPU build reaches nvcc of the located toolkit
C10_Witness ==
    /\ use_cuda
    /\ CUDA # Nothing
    /\ Len(calls) = 3
    /\ HasCuExtension(calls[3].src)
    /\ calls[3].compiler_so = <<PathStr(CUDA[1].nvcc)>>
    /\ calls[3].postargs = nvcc_flags

====
